---- MODULE Spec2Model ----
(***************************************************************************)
(* Model of regex-tester/app.py (RegexTesterApp): the two reactive fields, *)
(* their change handlers and watchers, and the _update_matches pipeline    *)
(* (compile, finditer loop, Markdown rendering).                           *)
(*                                                                         *)
(* Text is modelled as a sequence of one-character strings; status and     *)
(* document are the rendered strings themselves (Str joins characters).    *)
(* A backquote cannot be written inside a TLA+ string literal, so the      *)
(* backquote character is written as the token Backtick.                   *)
(***************************************************************************)
EXTENDS Integers, Sequences, FiniteSets, TLC

\* ------------------------------------------------------------------ bounds
MaxLen == 2          \* longest subject typed over Alphabet

\* ------------------------------------------------------------- characters
Backtick == "<backtick>"
Backslash == "\\"
Alphabet == {"a", "*", Backslash}
NoneText == <<"N", "o", "n", "e">>

RECURSIVE SeqsUpTo(_)
SeqsUpTo(n) ==
  IF n = 0 THEN {<<>>}
  ELSE LET shorter == SeqsUpTo(n - 1)
       IN shorter \cup {Append(s, c) : s \in {t \in shorter : Len(t) = n - 1}, c \in Alphabet}

\* Subjects the TextArea can report: every text over Alphabet up to MaxLen,
\* and the text None (alone and followed by a star).
Subjects == SeqsUpTo(MaxLen) \cup {NoneText, Append(NoneText, "*")}

\* Patterns the Input can report.  The regex engine is external, so a pattern
\* is an opaque text whose behaviour is given by Compile and MatchAt below.
\* Pathological stands for a pattern on which the engine's scan raises.
OverflowPattern == "a{99999999999999999999}"
NamedPattern == "(?P<w>a)|\\*"
NonePattern == "(None)|\\*"
Pathological == "<pathological>"
Patterns == {"", "(", OverflowPattern, "a", "(a*)", NamedPattern, NonePattern, Pathological}

\* ---------------------------------------------------------------- strings
RECURSIVE Str(_)
Str(s) == IF s = <<>> THEN "" ELSE Head(s) \o Str(Tail(s))

RECURSIVE JoinStr(_, _)
JoinStr(sep, parts) ==
  IF parts = <<>> THEN ""
  ELSE IF Len(parts) = 1 THEN parts[1]
  ELSE parts[1] \o sep \o JoinStr(sep, Tail(parts))

RECURSIVE Flatten(_)
Flatten(parts) == IF parts = <<>> THEN <<>> ELSE Head(parts) \o Flatten(Tail(parts))

\* text[from:to] of Python, 0-based half-open, clamped to the text
Slice(s, from, to) ==
  LET hi == IF to > Len(s) THEN Len(s) ELSE to
  IN IF hi <= from THEN <<>> ELSE SubSeq(s, from + 1, hi)

\* ----------------------------------------------------------------- escaper
\* the character class of re.sub(r"([*_`\[\]\(\)!#\-\+\.])", r"\\\1", ...)
MarkupChars == {"*", "_", Backtick, "[", "]", "(", ")", "!", "#", "-", "+", "."}

RECURSIVE Escape(_)
Escape(s) ==
  IF s = <<>> THEN <<>>
  ELSE (IF Head(s) \in MarkupChars THEN <<Backslash, Head(s)>> ELSE <<Head(s)>>)
       \o Escape(Tail(s))

\* ------------------------------------------------------------ regex engine
Absent == [present |-> FALSE, text |-> <<>>]
Some(t) == [present |-> TRUE, text |-> t]

\* re.compile(pattern): ok, or the exception it raises
Compile(p) ==
  IF p = "("
    THEN [ok |-> FALSE, exc |-> "re.error",
          msg |-> "missing ), unterminated subpattern at position 0"]
  ELSE IF p = OverflowPattern
    THEN [ok |-> FALSE, exc |-> "OverflowError",
          msg |-> "the repetition number is too large"]
  ELSE [ok |-> TRUE, exc |-> "", msg |-> ""]

\* names of the pattern's named groups, by group number
GroupNames(p) == IF p = NamedPattern THEN <<"w">> ELSE <<>>

RECURSIVE RunLen(_, _)
RunLen(s, i) == IF i < Len(s) /\ s[i + 1] = "a" THEN 1 + RunLen(s, i + 1) ELSE 0

NoMatch == [ok |-> FALSE, end |-> 0, groups |-> <<>>]

\* the match of pattern p anchored at position i of s (0-based), if any;
\* nonEmpty asks for a match of positive width
MatchAt(p, s, i, nonEmpty) ==
  LET ch == IF i < Len(s) THEN s[i + 1] ELSE ""
  IN CASE p \in {"a", Pathological} ->
            IF ch = "a" THEN [ok |-> TRUE, end |-> i + 1, groups |-> <<>>] ELSE NoMatch
       [] p = "(a*)" ->
            LET n == RunLen(s, i)
            IN IF nonEmpty /\ n = 0 THEN NoMatch
               ELSE [ok |-> TRUE, end |-> i + n, groups |-> <<Some(Slice(s, i, i + n))>>]
       [] p = NamedPattern ->
            IF ch = "a" THEN [ok |-> TRUE, end |-> i + 1, groups |-> <<Some(<<"a">>)>>]
            ELSE IF ch = "*" THEN [ok |-> TRUE, end |-> i + 1, groups |-> <<Absent>>]
            ELSE NoMatch
       [] p = NonePattern ->
            IF Slice(s, i, i + 4) = NoneText
              THEN [ok |-> TRUE, end |-> i + 4, groups |-> <<Some(NoneText)>>]
            ELSE IF ch = "*" THEN [ok |-> TRUE, end |-> i + 1, groups |-> <<Absent>>]
            ELSE NoMatch
       [] OTHER -> NoMatch

\* the engine fails while searching s from position i (Pathological meets a
\* backslash before it finds a match)
RECURSIVE ScanRaisesFrom(_, _, _)
ScanRaisesFrom(p, s, i) ==
  /\ p = Pathological
  /\ i < Len(s)
  /\ s[i + 1] # "a"
  /\ (s[i + 1] = Backslash \/ ScanRaisesFrom(p, s, i + 1))

ScanErrorMsg == "internal error in regular expression engine"

\* position the scanner resumes from after a match [start, end)
ResumeAt_overlapping(start, end) == IF end > start THEN start + 1 ELSE end
ResumeAt(start, end) == end

\* leftmost position >= pos where the pattern matches; a scanner that has just
\* produced an empty match must advance (no second empty match at pos)
RECURSIVE SearchFrom(_, _, _, _, _)
SearchFrom(p, s, i, pos, must_advance) ==
  IF i > Len(s) THEN [found |-> FALSE, start |-> 0, end |-> 0, groups |-> <<>>]
  ELSE LET m == MatchAt(p, s, i, must_advance /\ i = pos)
       IN IF m.ok /\ ~(must_advance /\ i = pos /\ m.end = i)
            THEN [found |-> TRUE, start |-> i, end |-> m.end, groups |-> m.groups]
            ELSE SearchFrom(p, s, i + 1, pos, must_advance)

\* next(finditer): the next match_obj of the scanner, or exhaustion
NextMatch(p, s, sc) == SearchFrom(p, s, sc.pos, sc.pos, sc.must_advance)

\* -------------------------------------------------------- rendered strings
Fence == Backtick \o Backtick \o Backtick

InitialStatus == "Regex Status: (Enter a pattern)"
EnterPatternStatus == "Regex Status: (Enter a pattern)"
EnterPatternDocument == "Enter a regex pattern to see matches."

ValidStatus_keep(previous) == previous
ValidStatus(previous) == "Regex Status: [b green]Valid[/b]"

InvalidStatus_nomsg(e) == "Regex Status: [b red]Invalid[/b]"
InvalidStatus(e) == "Regex Status: [b red]Invalid[/b] - " \o e
RegexErrorDocument(e) == "### Regex Error\n\n" \o Fence \o "\n" \o e \o "\n" \o Fence

UnexpectedStatus(e) == "Regex Status: [b red]Error[/b] - Unexpected: " \o e
UnexpectedDocument(e) ==
  "### Unexpected Compilation Error\n\n" \o Fence \o "\n" \o e \o "\n" \o Fence

EnterTestStringDocument_keep(previous) == previous
EnterTestStringDocument(previous) == "Enter a test string to find matches."

MatchingErrorStatus(e) == "Regex Status: [b red]Error during matching[/b] - " \o e
MatchingErrorDocument(e) == "### Matching Error\n\n" \o Fence \o "\n" \o e \o "\n" \o Fence

NoMatchesDocument_raw(s) == "No matches found in:\n\n" \o Str(s)
NoMatchesDocument(s) == "No matches found in:\n\n" \o Str(Escape(s))
GenericNoMatchesDocument == "No matches found."

\* f"**{escaped_match_segment}**"
Bold(segment) == <<"*", "*">> \o Escape(segment) \o <<"*", "*">>

\* f"`{escaped_g}`" with escaped_g the escaped text, or "None" for g is None
RenderGroup(g) ==
  Backtick \o (IF g.present THEN Str(Escape(g.text)) ELSE "None") \o Backtick

RECURSIVE GroupStrParts(_)
GroupStrParts(groups) ==
  IF groups = <<>> THEN <<>>
  ELSE <<RenderGroup(Head(groups))>> \o GroupStrParts(Tail(groups))

\* groupdict(): the named groups, as (name, value) in group order
GroupDict(p, groups) ==
  [i \in 1..Len(GroupNames(p)) |-> [name |-> GroupNames(p)[i], val |-> groups[i]]]

RECURSIVE NamedGroupParts(_)
NamedGroupParts(gd) ==
  IF gd = <<>> THEN <<>>
  ELSE <<Head(gd).name \o "=" \o RenderGroup(Head(gd).val)>> \o NamedGroupParts(Tail(gd))

\* match_info of one match_obj m found by pattern p in subject s
MatchInfo(p, s, m) ==
  LET segment == Slice(s, m.start, m.end)
      head == "- **Match**: " \o Backtick \o Str(Escape(segment)) \o Backtick
              \o " (span=(" \o ToString(m.start) \o ", " \o ToString(m.end) \o "))"
      grp == IF m.groups # <<>>
               THEN "\n  - Groups (" \o ToString(Len(m.groups)) \o "): ("
                    \o JoinStr(", ", GroupStrParts(m.groups)) \o ")"
               ELSE ""
      gd == GroupDict(p, m.groups)
      named == IF gd # <<>>
                 THEN "\n  - Named Groups: {" \o JoinStr(", ", NamedGroupParts(gd)) \o "}"
                 ELSE ""
  IN head \o grp \o named

ResultsContent(highlighted, details) ==
  "### Highlighted Text:\n\n"
  \o (IF highlighted # <<>> THEN Str(highlighted)
      ELSE "(No visual text to highlight if all is matched or empty)")
  \o "\n\n### Match Details:\n\n" \o JoinStr("\n\n", details)

\* ------------------------------------------------------------------- state
VARIABLES
  regex_pattern,                   \* reactive field
  test_string,                     \* reactive field
  status,                          \* text of Label#regex_status
  document,                        \* text of Markdown#match_results
  pending,                         \* watcher calls scheduled, not yet run
  pc,                              \* "idle", or "loop" inside the finditer loop
  pattern,                         \* locals of the latest _update_matches ...
  current_test_str,
  scanner,                         \* position of the finditer iterator
  matches_details_md,
  highlighted_text_parts_for_md,
  last_char_index,
  highlighted_output_for_markdown,
  consumed,                        \* the match_obj values the loop has consumed
  compile_called,                  \* the latest _update_matches called re.compile
  finditer_called,                 \* ... and called finditer
  outcome,                         \* the return statement it left through
  hadError,                        \* some _update_matches ended in an except clause
  skipped                          \* the latest watcher call found old = new

fields == <<regex_pattern, test_string>>
display == <<status, document>>
locals == <<pattern, current_test_str, scanner, matches_details_md,
            highlighted_text_parts_for_md, last_char_index,
            highlighted_output_for_markdown, consumed>>
ghosts == <<compile_called, finditer_called, outcome, hadError>>
vars == <<fields, display, pending, pc, locals, ghosts, skipped>>

Init ==
  /\ regex_pattern = ""
  /\ test_string = <<>>
  /\ status = InitialStatus
  /\ document = ""
  /\ pending = <<>>
  /\ pc = "idle"
  /\ pattern = ""
  /\ current_test_str = <<>>
  /\ scanner = [pos |-> 0, must_advance |-> FALSE]
  /\ matches_details_md = <<>>
  /\ highlighted_text_parts_for_md = <<>>
  /\ last_char_index = 0
  /\ highlighted_output_for_markdown = <<>>
  /\ consumed = <<>>
  /\ compile_called = FALSE
  /\ finditer_called = FALSE
  /\ outcome = "none"
  /\ hadError = FALSE
  /\ skipped = FALSE

\* ---------------------------------------------------------------- handlers
\* @on(Input.Changed): self.regex_pattern = event.value.  The assignment
\* schedules the async watcher watch_regex_pattern(old, new), which the message
\* pump runs once this handler has returned and before it handles the next
\* message: a handler starts only when no watcher call is waiting.
handle_regex_input_change(value) ==
  /\ pc = "idle"
  /\ pending = <<>>
  /\ regex_pattern' = value
  /\ pending' = Append(pending, [field |-> "regex_pattern", old |-> regex_pattern, new |-> value])
  /\ UNCHANGED <<test_string, display, pc, locals, ghosts, skipped>>

\* @on(TextArea.Changed): self.test_string = event.text_area.text
handle_test_string_area_change(text) ==
  /\ pc = "idle"
  /\ pending = <<>>
  /\ test_string' = text
  /\ pending' = Append(pending, [field |-> "test_string", old |-> test_string, new |-> text])
  /\ UNCHANGED <<regex_pattern, display, pc, locals, ghosts, skipped>>

\* the test of both watchers
Changed_always(old, new) == TRUE
Changed(old, new) == old # new

IsEmptyPattern_never(p) == FALSE
IsEmptyPattern(p) == p = ""

IsEmptySubject_never(s) == FALSE
IsEmptySubject(s) == s = <<>>

ResetLoopLocals ==
  /\ scanner' = [pos |-> 0, must_advance |-> FALSE]
  /\ matches_details_md' = <<>>
  /\ highlighted_text_parts_for_md' = <<>>
  /\ last_char_index' = 0
  /\ highlighted_output_for_markdown' = <<>>
  /\ consumed' = <<>>

\* _update_matches up to the for statement
update_matches ==
  /\ pattern' = regex_pattern
  /\ current_test_str' = test_string
  /\ ResetLoopLocals
  /\ IF IsEmptyPattern(regex_pattern)
       THEN /\ status' = EnterPatternStatus
            /\ document' = EnterPatternDocument
            /\ compile_called' = FALSE
            /\ finditer_called' = FALSE
            /\ outcome' = "empty_pattern"
            /\ UNCHANGED <<pc, hadError>>
     ELSE LET c == Compile(regex_pattern)
          IN /\ compile_called' = TRUE
             /\ IF ~c.ok /\ c.exc = "re.error"
                  THEN /\ status' = InvalidStatus(c.msg)
                       /\ document' = RegexErrorDocument(c.msg)
                       /\ finditer_called' = FALSE
                       /\ outcome' = "re_error"
                       /\ hadError' = TRUE
                       /\ UNCHANGED pc
                ELSE IF ~c.ok
                  THEN /\ status' = UnexpectedStatus(c.msg)
                       /\ document' = UnexpectedDocument(c.msg)
                       /\ finditer_called' = FALSE
                       /\ outcome' = "unexpected_compile_error"
                       /\ hadError' = TRUE
                       /\ UNCHANGED pc
                ELSE /\ status' = ValidStatus(status)
                     /\ IF IsEmptySubject(test_string)
                          THEN /\ document' = EnterTestStringDocument(document)
                               /\ finditer_called' = FALSE
                               /\ outcome' = "empty_subject"
                               /\ UNCHANGED <<pc, hadError>>
                          ELSE /\ finditer_called' = TRUE
                               /\ outcome' = "matching"
                               /\ pc' = "loop"
                               /\ UNCHANGED <<document, hadError>>

\* watch_regex_pattern(old_pattern, new_pattern)
watch_regex_pattern ==
  /\ pc = "idle"
  /\ pending # <<>>
  /\ Head(pending).field = "regex_pattern"
  /\ pending' = Tail(pending)
  /\ UNCHANGED fields
  /\ skipped' = ~Changed(Head(pending).old, Head(pending).new)
  /\ IF Changed(Head(pending).old, Head(pending).new)
       THEN update_matches
       ELSE UNCHANGED <<display, pc, locals, ghosts>>

\* watch_test_string(old_string, new_string)
watch_test_string ==
  /\ pc = "idle"
  /\ pending # <<>>
  /\ Head(pending).field = "test_string"
  /\ pending' = Tail(pending)
  /\ UNCHANGED fields
  /\ skipped' = ~Changed(Head(pending).old, Head(pending).new)
  /\ IF Changed(Head(pending).old, Head(pending).new)
       THEN update_matches
       ELSE UNCHANGED <<display, pc, locals, ghosts>>

\* ------------------------------------------------------- the finditer loop
\* one iteration of the for statement: finditer yields match_obj
loop_body ==
  /\ pc = "loop"
  /\ ~ScanRaisesFrom(pattern, current_test_str, scanner.pos)
  /\ LET m == NextMatch(pattern, current_test_str, scanner)
         non_match_part == Slice(current_test_str, last_char_index, m.start)
         matched_text_segment == Slice(current_test_str, m.start, m.end)
     IN /\ m.found
        /\ highlighted_text_parts_for_md' =
             highlighted_text_parts_for_md \o <<Escape(non_match_part), Bold(matched_text_segment)>>
        /\ last_char_index' = m.end
        /\ matches_details_md' =
             Append(matches_details_md, MatchInfo(pattern, current_test_str, m))
        /\ consumed' = Append(consumed, [start |-> m.start, end |-> m.end, groups |-> m.groups])
        /\ scanner' = [pos |-> ResumeAt(m.start, m.end), must_advance |-> (m.end = m.start)]
  /\ UNCHANGED <<fields, display, pending, pc, pattern, current_test_str,
                 highlighted_output_for_markdown, ghosts, skipped>>

\* finditer raises inside the try: the except clause of the loop
loop_raise ==
  /\ pc = "loop"
  /\ ScanRaisesFrom(pattern, current_test_str, scanner.pos)
  /\ status' = MatchingErrorStatus(ScanErrorMsg)
  /\ document' = MatchingErrorDocument(ScanErrorMsg)
  /\ outcome' = "matching_error"
  /\ hadError' = TRUE
  /\ pc' = "idle"
  /\ UNCHANGED <<fields, pending, locals, compile_called, finditer_called, skipped>>

\* finditer is exhausted: the rest of _update_matches
loop_end ==
  /\ pc = "loop"
  /\ ~ScanRaisesFrom(pattern, current_test_str, scanner.pos)
  /\ ~NextMatch(pattern, current_test_str, scanner).found
  /\ LET final_non_match_part ==
           Slice(current_test_str, last_char_index, Len(current_test_str))
         parts == Append(highlighted_text_parts_for_md, Escape(final_non_match_part))
     IN /\ highlighted_text_parts_for_md' = parts
        /\ highlighted_output_for_markdown' = Flatten(parts)
        /\ IF matches_details_md # <<>>
             THEN /\ document' = ResultsContent(Flatten(parts), matches_details_md)
                  /\ outcome' = "results"
             ELSE IF current_test_str # <<>>
               THEN /\ document' = NoMatchesDocument(current_test_str)
                    /\ outcome' = "no_matches"
               ELSE /\ document' = GenericNoMatchesDocument
                    /\ outcome' = "no_matches_generic"
  /\ pc' = "idle"
  /\ UNCHANGED <<fields, status, pending, pattern, current_test_str, scanner,
                 matches_details_md, last_char_index, consumed,
                 compile_called, finditer_called, hadError, skipped>>

Next ==
  \/ \E value \in Patterns : handle_regex_input_change(value)
  \/ \E text \in Subjects : handle_test_string_area_change(text)
  \/ watch_regex_pattern
  \/ watch_test_string
  \/ loop_body
  \/ loop_raise
  \/ loop_end

Spec == Init /\ [][Next]_vars

\* _update_matches does not suspend inside the loop: a scan that has started
\* goes on to its next iteration, its except clause or its end
finditer_loop == loop_body \/ loop_raise \/ loop_end

\* The scans alone: _update_matches has just reached the for statement (the
\* pattern was typed first and compiled, then the subject was typed), for every
\* pattern that compiles and every non-empty subject; the loop then runs.
ScanInit ==
  \E p \in Patterns, s \in Subjects :
    /\ ~IsEmptyPattern(p) /\ Compile(p).ok /\ ~IsEmptySubject(s)
    /\ regex_pattern = p
    /\ test_string = s
    /\ status = ValidStatus("")
    /\ document = EnterTestStringDocument("")
    /\ pending = <<>>
    /\ pc = "loop"
    /\ pattern = p
    /\ current_test_str = s
    /\ scanner = [pos |-> 0, must_advance |-> FALSE]
    /\ matches_details_md = <<>>
    /\ highlighted_text_parts_for_md = <<>>
    /\ last_char_index = 0
    /\ highlighted_output_for_markdown = <<>>
    /\ consumed = <<>>
    /\ compile_called = TRUE
    /\ finditer_called = TRUE
    /\ outcome = "matching"
    /\ hadError = FALSE
    /\ skipped = FALSE

ScanSpec == ScanInit /\ [][finditer_loop]_vars /\ WF_vars(finditer_loop)

TypeOK ==
  /\ regex_pattern \in Patterns
  /\ test_string \in Subjects
  /\ pc \in {"idle", "loop"}
  /\ Len(pending) <= 1
  /\ last_char_index \in 0..Len(current_test_str)

\* ------------------------------------------------- one recompute, as a function
\* the for loop of _update_matches run to its end from scanner position sc
RECURSIVE LoopResult(_, _, _, _, _, _)
LoopResult(p, s, sc, parts, details, last) ==
  IF ScanRaisesFrom(p, s, sc.pos)
    THEN [raised |-> TRUE, highlighted |-> <<>>, details |-> details]
  ELSE LET m == NextMatch(p, s, sc)
       IN IF ~m.found
            THEN [raised |-> FALSE,
                  highlighted |-> Flatten(Append(parts, Escape(Slice(s, last, Len(s))))),
                  details |-> details]
            ELSE LoopResult(p, s,
                            [pos |-> ResumeAt(m.start, m.end), must_advance |-> (m.end = m.start)],
                            parts \o <<Escape(Slice(s, last, m.start)), Bold(Slice(s, m.start, m.end))>>,
                            Append(details, MatchInfo(p, s, m)),
                            m.end)

\* status and document a single _update_matches produces for pattern p and
\* subject s, started from a blank display
Recompute(p, s) ==
  IF IsEmptyPattern(p)
    THEN [status |-> EnterPatternStatus, document |-> EnterPatternDocument]
  ELSE LET c == Compile(p)
       IN IF ~c.ok /\ c.exc = "re.error"
            THEN [status |-> InvalidStatus(c.msg), document |-> RegexErrorDocument(c.msg)]
          ELSE IF ~c.ok
            THEN [status |-> UnexpectedStatus(c.msg), document |-> UnexpectedDocument(c.msg)]
          ELSE IF IsEmptySubject(s)
            THEN [status |-> ValidStatus(""), document |-> EnterTestStringDocument("")]
          ELSE LET r == LoopResult(p, s, [pos |-> 0, must_advance |-> FALSE], <<>>, <<>>, 0)
               IN IF r.raised
                    THEN [status |-> MatchingErrorStatus(ScanErrorMsg),
                          document |-> MatchingErrorDocument(ScanErrorMsg)]
                  ELSE IF r.details # <<>>
                    THEN [status |-> ValidStatus(""),
                          document |-> ResultsContent(r.highlighted, r.details)]
                  ELSE IF s # <<>>
                    THEN [status |-> ValidStatus(""), document |-> NoMatchesDocument(s)]
                  ELSE [status |-> ValidStatus(""), document |-> GenericNoMatchesDocument]

\* the engine's scan of s with p raises
ScanFails(p, s) ==
  LoopResult(p, s, [pos |-> 0, must_advance |-> FALSE], <<>>, <<>>, 0).raised

\* removal of the markup from a rendered text: a backslash in front of a
\* markup character is an escape marker, two stars are an emphasis marker
RECURSIVE StripMarkup(_)
StripMarkup(t) ==
  IF t = <<>> THEN <<>>
  ELSE IF Len(t) >= 2 /\ t[1] = Backslash /\ t[2] \in MarkupChars
    THEN <<t[2]>> \o StripMarkup(SubSeq(t, 3, Len(t)))
  ELSE IF Len(t) >= 2 /\ t[1] = "*" /\ t[2] = "*"
    THEN StripMarkup(SubSeq(t, 3, Len(t)))
  ELSE <<t[1]>> \o StripMarkup(Tail(t))

Settled == pc = "idle" /\ pending = <<>>
Ran == pc = "idle" /\ outcome # "none"
ErrorOutcomes == {"re_error", "unexpected_compile_error", "matching_error"}

\* ------------------------------------------------------------------ claims

\* C1 as stated: whenever no watcher call is waiting and no recompute is
\* running, status and document are what a single recompute on the current
\* (regex_pattern, test_string) pair produces.
C1_DisplayIsFunctionOfPair ==
  Settled =>
    /\ status = Recompute(regex_pattern, test_string).status
    /\ document = Recompute(regex_pattern, test_string).document

\* C1 amended: once at least one recompute has run, the display is what a
\* single recompute on the pair it read produces, whatever was displayed
\* before (earlier edits, earlier errors), and when no watcher call is waiting
\* that pair is the current pair.
C1_DisplayIsFunctionOfPairOnceRun ==
  Ran =>
    /\ status = Recompute(pattern, current_test_str).status
    /\ document = Recompute(pattern, current_test_str).document
    /\ (pending = <<>> => pattern = regex_pattern /\ current_test_str = test_string)

C1_Witness ==
  /\ Settled /\ hadError
  /\ outcome = "empty_subject"
  /\ document = "Enter a test string to find matches."

\* C2: stripping the emphasis and escape markers from the highlighted text
\* built by a completed recompute yields the subject, character for character.
C2_RoundTrip ==
  (pc = "idle" /\ outcome \in {"results", "no_matches"}) =>
    StripMarkup(highlighted_output_for_markdown) = current_test_str

\* C3 as stated: whenever the non-empty pattern fails to compile, the status
\* is marked Invalid with the message, the document is the Regex Error
\* document with the message, and finditer is not called.
C3_CompileFailureIsInvalid ==
  (Ran /\ compile_called /\ ~Compile(pattern).ok) =>
    /\ status = "Regex Status: [b red]Invalid[/b] - " \o Compile(pattern).msg
    /\ document = "### Regex Error\n\n" \o Fence \o "\n" \o Compile(pattern).msg \o "\n" \o Fence
    /\ ~finditer_called

\* C3 amended: a pattern that fails to compile with re.error gives the Invalid
\* status and the Regex Error document, each with the message; one that fails
\* with any other exception gives the Error - Unexpected status and the
\* Unexpected Compilation Error document, each with the message; in both
\* cases finditer is not called and no match is consumed.
C3_CompileFailureIsReported ==
  (Ran /\ compile_called /\ ~Compile(pattern).ok) =>
    /\ ~finditer_called
    /\ consumed = <<>>
    /\ IF Compile(pattern).exc = "re.error"
         THEN /\ status = "Regex Status: [b red]Invalid[/b] - " \o Compile(pattern).msg
              /\ document = "### Regex Error\n\n" \o Fence \o "\n"
                            \o Compile(pattern).msg \o "\n" \o Fence
         ELSE /\ status = "Regex Status: [b red]Error[/b] - Unexpected: " \o Compile(pattern).msg
              /\ document = "### Unexpected Compilation Error\n\n" \o Fence \o "\n"
                            \o Compile(pattern).msg \o "\n" \o Fence

C3_Witness ==
  /\ pc = "idle"
  /\ pattern = "("
  /\ outcome = "re_error"
  /\ current_test_str # <<>>

\* C4: a recompute that left through an except clause has set a non-empty
\* error status and a non-empty document; and after an error, once the edits
\* are processed, a pattern that compiles with a non-empty subject the engine
\* scans shows the Valid status and the normal document.
C4_ErrorsReportedAndRecovered ==
  /\ (pc = "idle" /\ outcome \in ErrorOutcomes) =>
       /\ status # "" /\ document # ""
       /\ status \notin {"Regex Status: [b green]Valid[/b]", "Regex Status: (Enter a pattern)"}
       /\ document \notin {"Enter a regex pattern to see matches.",
                           "Enter a test string to find matches."}
  /\ (Settled /\ hadError /\ regex_pattern # "" /\ Compile(regex_pattern).ok
        /\ test_string # <<>> /\ ~ScanFails(regex_pattern, test_string)) =>
       /\ status = "Regex Status: [b green]Valid[/b]"
       /\ outcome \in {"results", "no_matches"}
       /\ document = Recompute(regex_pattern, test_string).document

C4_Witness ==
  /\ Settled /\ hadError
  /\ outcome = "results"
  /\ status = "Regex Status: [b green]Valid[/b]"

\* C5: a recompute that read an empty pattern shows the neutral status and the
\* enter-a-pattern placeholder, whatever the subject and whatever was shown
\* before, and called neither re.compile nor finditer.
C5_EmptyPattern ==
  (Ran /\ pattern = "") =>
    /\ status = "Regex Status: (Enter a pattern)"
    /\ document = "Enter a regex pattern to see matches."
    /\ ~compile_called
    /\ ~finditer_called

C5_Witness ==
  /\ Ran /\ pattern = ""
  /\ hadError
  /\ current_test_str # <<>>

\* C6: a recompute that read a non-empty pattern that compiles and an empty
\* subject shows the Valid status and the enter-a-test-string placeholder and
\* did not call finditer.
C6_EmptySubject ==
  (Ran /\ pattern # "" /\ Compile(pattern).ok /\ current_test_str = <<>>) =>
    /\ status = "Regex Status: [b green]Valid[/b]"
    /\ document = "Enter a test string to find matches."
    /\ outcome = "empty_subject"
    /\ ~finditer_called
    /\ consumed = <<>>

C6_Witness ==
  /\ Ran /\ pattern = "(a*)"
  /\ current_test_str = <<>>
  /\ outcome = "empty_subject"

\* the consumed matches lie in the subject, sorted by start, not overlapping
C7_Sorted ==
  \A i \in 1..Len(consumed) :
    /\ 0 <= consumed[i].start
    /\ consumed[i].start <= consumed[i].end
    /\ consumed[i].end <= Len(current_test_str)
    /\ i < Len(consumed) =>
         /\ consumed[i].start <= consumed[i + 1].start
         /\ consumed[i].end <= consumed[i + 1].start

\* an iteration of the loop finds the cut at or before the match it consumes
\* and does not move it back
C7_CutStep ==
  (pc = "loop" /\ pc' = "loop") =>
    /\ Len(consumed') = Len(consumed) + 1
    /\ last_char_index <= consumed'[Len(consumed')].start
    /\ last_char_index <= last_char_index'

\* C7: the matches the loop consumes are sorted by start and pairwise
\* non-overlapping; last_char_index never decreases during a scan and never
\* exceeds the start of the next match; and every scan ends, zero-width
\* matches included.
C7_OrderedScan ==
  /\ []C7_Sorted
  /\ [][C7_CutStep]_vars
  /\ (pc = "loop") ~> (pc = "idle")

C7_Witness ==
  /\ pc = "idle"
  /\ outcome = "results"
  /\ Len(consumed) >= 3
  /\ \E i \in 1..Len(consumed) : consumed[i].start = consumed[i].end
  /\ \E i \in 1..Len(consumed) : consumed[i].start < consumed[i].end

\* C8: in the detail entries, the rendering of a group that did not
\* participate differs from the rendering of every group that captured a value.
C8_AbsentRenderedDistinctly ==
  \A i \in 1..Len(consumed) :
    \A j \in 1..Len(consumed[i].groups) :
      consumed[i].groups[j].present =>
        RenderGroup(consumed[i].groups[j]) # RenderGroup(Absent)

\* delivery of a notification whose value equals the field's value
C9_Delivered ==
  (Len(pending') = Len(pending) + 1
     /\ pending'[Len(pending')].old = pending'[Len(pending')].new) =>
    UNCHANGED <<fields, display, pc, locals, ghosts>>

\* the watcher call of such a notification
C9_Watched ==
  (pc = "idle" /\ pending # <<>> /\ pending' = Tail(pending)
     /\ Head(pending).old = Head(pending).new) =>
    UNCHANGED <<fields, display, pc, locals, ghosts>>

\* C9: a notification whose value equals the field's value changes neither
\* field when it is delivered, and its watcher call runs no recompute: status,
\* document and everything a recompute writes stay as they were.
C9_NoOpOnUnchangedValue == [][C9_Delivered /\ C9_Watched]_vars

C9_Witness ==
  /\ Settled
  /\ skipped
  /\ outcome = "results"

\* C10: when the latest recompute compiled the pattern and its scan ended with
\* no match, the status is Valid and the document is the
\* "No matches found in:" message with the escaped subject; the generic
\* "No matches found." document is never displayed.
C10_NoMatch ==
  /\ (Ran /\ compile_called /\ Compile(pattern).ok /\ finditer_called
        /\ outcome # "matching_error" /\ consumed = <<>>) =>
       /\ status = "Regex Status: [b green]Valid[/b]"
       /\ document = "No matches found in:\n\n" \o Str(Escape(current_test_str))
  /\ document # "No matches found."
  /\ outcome # "no_matches_generic"

C10_Witness ==
  /\ pc = "idle"
  /\ outcome = "no_matches"
  /\ \E i \in 1..Len(current_test_str) : current_test_str[i] \in MarkupChars

====
